---- MODULE Spec2Model ----
(***************************************************************************)
(* The stream-framed transport of go-mcp (stdio.go): one StdIO value with  *)
(* its single stdIOSession, the callers of Stop and Send, one consumer of  *)
(* Messages and one consumer of Sessions, and the goroutines Send and      *)
(* Messages spawn.  Channels that are only ever closed (done, closed) are  *)
(* booleans; a close of a closed channel panics and ends the process.      *)
(* Further specifications cover two StdIO values joined by pipes, one Run  *)
(* of a StdIOClient (example/everything/client.go) with its listenWritter  *)
(* goroutine, and the *CommandsAvailable methods of the client.            *)
(***************************************************************************)
EXTENDS Naturals, Sequences, FiniteSets

\* ------------------------------------------------------------------ bounds

\* What the environment does in one run, in any mix: calls of Stop, calls of
\* Send, iterations of Messages, iterations of Sessions, lines (or EOF, or a
\* read error) the reader returns, and the cancellation of the callers' context.
MaxCalls == 3

\* capacity of the errs channel of one Send
ErrsCap == 1

Stoppers == 1..MaxCalls
Sends == 1..MaxCalls
MsgIters == 1..MaxCalls

\* The messages a caller may pass to Send.  Params is a json.RawMessage, the
\* bytes of a JSON value as the caller wrote them: "request" and "notification"
\* hold compact params, "spaced" is the request with white space inside its
\* params (as in `{"data": "first request"}`), "badparams" is one whose raw
\* params are not valid JSON.
Msgs == {"request", "notification", "badparams"}

\* The valid messages the two connected endpoints send each other.
ValidMsgs == {"notification", "spaced"}

\* json.Marshal with raw params written out byte for byte.
Marshal_Verbatim(m) ==
  CASE m = "request" -> [ok |-> TRUE, doc |-> "{request}"]
    [] m = "spaced" -> [ok |-> TRUE, doc |-> "{ request }"]
    [] m = "notification" -> [ok |-> TRUE, doc |-> "{notification}"]
    [] OTHER -> [ok |-> FALSE, doc |-> ""]

\* json.Marshal of a message: its JSON document, or an error.  The encoder
\* compacts what a RawMessage holds, so the request and the spaced request have
\* the same document.
Marshal(m) ==
  CASE m = "request" -> [ok |-> TRUE, doc |-> "{request}"]
    [] m = "spaced" -> [ok |-> TRUE, doc |-> "{request}"]
    [] m = "notification" -> [ok |-> TRUE, doc |-> "{notification}"]
    [] OTHER -> [ok |-> FALSE, doc |-> ""]

\* json.Unmarshal of a line: the message it is a document of, its raw params
\* the bytes the line holds, or a failure.
Unmarshal(line) ==
  CASE line = "{request}" -> [ok |-> TRUE, msg |-> "request"]
    [] line = "{ request }" -> [ok |-> TRUE, msg |-> "spaced"]
    [] line = "{notification}" -> [ok |-> TRUE, msg |-> "notification"]
    [] OTHER -> [ok |-> FALSE, msg |-> "none"]

\* The lines a peer may put on the stream, the newline trimmed: the document of a
\* message, text that is not JSON, or nothing.
Lines == {Marshal(m).doc : m \in {n \in Msgs : Marshal(n).ok}} \cup {"{not json", ""}

\* What Write returns, (n, err); NoRet before its first return.
NoRet == [n |-> 0, err |-> "none"]

\* The bytes of the one JSON document of a message, and the slices a caller
\* may pass to one Write: a part of the document, all of it, or a byte that
\* starts no JSON value.
Document == <<"{", "}">>
Chunks == {<<"{">>, <<"}">>, Document, <<"x">>}

\* json.Unmarshal(s.written, &msg): the bytes must be one whole document.
UnmarshalWritten(bs) == [ok |-> bs = Document]

\* What one ReadString('\n') hands to the loop (lineWithErr): a line, end of
\* stream, or a read error.
NoLwe == [line |-> "", err |-> "none"]
Items == {[line |-> l, err |-> "nil"] : l \in Lines}
           \cup {[line |-> "", err |-> e] : e \in {"EOF", "ERR"}}

\* What ReadString('\n') returns when the stream ends in the middle of a line:
\* the data read so far together with io.EOF.
Tails == {[line |-> l, err |-> "EOF"] : l \in Lines \ {""}}

\* lineWithErr as the read goroutine builds it from (line, err): the error alone
\* when there is one, the trimmed line otherwise.
Handoff_KeepTail(res) ==
  IF res.line # "" THEN [line |-> res.line, err |-> "nil"] ELSE res

Handoff(res) ==
  IF res.err # "nil" THEN [line |-> "", err |-> res.err] ELSE res

\* The two connected endpoints, and how many messages each of them sends.
Endpoints == {"client", "server"}
Peer(e) == IF e = "client" THEN "server" ELSE "client"
PairSends == MaxCalls - 1

VARIABLES
  quota,       \* how many environment events this run may hold (a bound)
  tail,        \* the stream may end in a line that lacks its newline
  done,        \* sess.done is closed
  sess_closed, \* sess.closed is closed
  closed,      \* StdIO.closed is closed
  panicked,    \* "none", or the operation whose close hit a closed channel
  stopPc,      \* per Stop call: "idle", "wait" (after close(done)), "returned",
               \*   "panicked"
  sendPc,      \* per Send call: "idle", "select", "returned"
  sendRet,     \* per Send call: "none", "nil", "err" (the write failed),
               \*   "marshalErr"
  sendLate,    \* per Send call: done was already closed when Send was called
  ctxDone,     \* the context the callers pass to StdIO.Send is cancelled
  wPc,         \* per Send call, its write goroutine: "none", "check", "write",
               \*   "inWrite", "report", "exit"
  wRes,        \* per Send call: what Write returned: "none", "nil", "err"
  writes,      \* per Send call: Write calls begun on the writer
  errs,        \* per Send call: the buffered errs channel
  sendMsg,     \* per Send call: the message passed to it
  wire,        \* frames the writer accepted, in order
  nread,       \* lines (or errors) the reader has returned
  eof,         \* the reader has returned end of stream
  msgPc,       \* Messages iteration: "idle", "top", "select", "handle", "yield",
               \*   "closing", "returned"
  msgIter,     \* Messages iterations started
  rd,          \* per Messages iteration, its latest read goroutine:
               \*   "none", "reading", "handoff", "exit"
  rdLwe,       \* per Messages iteration: what its read goroutine's ReadString returned
  lwe,         \* the lineWithErr the Messages loop received
  arrived,     \* what the reader returned since the current iteration started,
               \*   to whichever read goroutine, in order
  delivered,   \* messages yielded to the consumer of the current iteration
  msgEnd,      \* per Messages iteration, why it left its loop: "none", "done",
               \*   "EOF", "ERR", "break"
  sessPc,      \* Sessions iteration: "idle", "yield", "wait", "closing", "returned"
  sessIter,    \* Sessions iterations started
  sessYields,  \* identifiers of the sessions yielded in the current iteration
  sessBroke,   \* the consumer of Sessions broke out of its range body
  startPc,     \* the latest StartSession call: "idle", "closed" (after
               \*   close(ready)), "returned"
  starts,      \* StartSession calls begun
  ready,       \* the ready channel of the latest StartSession call: whether it is
               \*   closed, and the values sent on it
  startRet,    \* what the latest StartSession call returned: the sequence and
               \*   the error ("none" until it returns)
  shutdowns,   \* Shutdown calls that have returned (each returns nil)
  \* Two StdIO values joined by two io.Pipes, per endpoint:
  sent,        \* the messages its sender has passed to Send, in order
  callPc,      \* its sender: "idle" (between two Sends), "select"
  rets,        \* what its Sends returned, in order
  writerPc,    \* the write goroutine of its Send: "none", "check", "write",
               \*   "inWrite", "report", "exit"
  errsCh,      \* the errs channel of its Send
  pipe,        \* the pipe it writes to: the part of the Write in flight that the
               \*   peer has not read yet
  buf,         \* what its bufio.Reader has read from the peer's pipe and not yet
               \*   returned
  readerPc,    \* its read goroutine: "none", "reading", "handoff", "exit"
  readerLine,  \* the line its read goroutine holds
  loopPc,      \* its Messages loop: "idle", "top", "select", "handle", "yield"
  loopLine,    \* the line its Messages loop received
  got,         \* the messages yielded to its consumer, in order
  \* One call of StdIOClient.Run:
  runPc,       \* "idle", "wait" (in waitStdIOInput), "startSession", "initialize",
               \*   "dispatch", "sendErr" (sending on errsChan), "closing"
               \*   (the deferred calls), "returned"
  runRet,      \* what Run returned: "none", "ctxErr", "readErr"
  runCtx,      \* the context passed to Run is cancelled
  capsOk,      \* client and server hold every capability the other requires
  input,       \* what the current turn of the loop read from in ("none"
               \*   between two turns)
  pendingErr,  \* the error Run is sending on errsChan
  errsSeen,    \* the errors received from errsChan, in order
  errsClosed,  \* errsChan is closed
  srvState,    \* the wrapped server: "new", "started", "stopped"
  inits,       \* sessions started and initialize calls made
  out,         \* responses written to out, in order: the id and the kind
  inputs,      \* inputs read from in; the n-th request carries the id n
  errsRecv,    \* the caller of Run receives from errsChan
  listenPc,    \* listenWritter: "off", "listening", "returned"
  handlers,    \* the goroutines listenWritter spawned that are still to read
               \*   s.currentSessionID: how many before srv.handleMsg (srv) and
               \*   how many before cli.handleMsg (cli)
  posted,      \* messages the sessions have written to s.writter
  \* The capabilities behind one StdIOClient:
  requiredServerCapabilities, \* the feature groups the client requires of a server
  serverCapabilities,         \* the feature groups the wrapped server offers
  available,   \* the latest *CommandsAvailable call: its group and its result
  \* The stdIOWritter of one StdIOClient:
  written,     \* s.written, the bytes accumulated so far
  wrPc,        \* the caller of Write: "idle" or "sending" (on msgChan)
  wrArg,       \* p of the latest call of Write
  wrRet,       \* what the latest call of Write returned
  wrCalls      \* calls of Write so far

vars == <<quota, tail, done, sess_closed, closed, panicked, stopPc, sendPc, sendRet, sendLate,
          ctxDone, wPc, wRes, writes, errs, sendMsg, wire, nread, eof, msgPc,
          msgIter, rd, rdLwe, lwe, arrived, delivered, msgEnd, sessPc, sessIter,
          sessYields, sessBroke, startPc, starts, ready, startRet, shutdowns,
          sent, callPc, rets, writerPc, errsCh, pipe, buf, readerPc, readerLine,
          loopPc, loopLine, got, runPc, runRet, runCtx, capsOk, input, pendingErr,
          errsSeen, errsClosed, srvState, inits, out, inputs, errsRecv, listenPc,
          handlers, posted, requiredServerCapabilities, serverCapabilities, available,
          written, wrPc, wrArg, wrRet, wrCalls>>

\* What the environment fixes for a whole run.
envVars  == <<quota, tail>>
stopVars == <<stopPc>>
sendVars == <<sendPc, sendRet, sendLate, ctxDone, wPc, wRes, writes, errs, sendMsg, wire>>
msgVars  == <<nread, eof, msgPc, msgIter, rd, rdLwe, lwe, arrived, delivered, msgEnd>>
sessVars == <<sessPc, sessIter, sessYields, sessBroke>>
apiVars  == <<startPc, starts, ready, startRet, shutdowns>>
pairVars == <<sent, callPc, rets, writerPc, errsCh, pipe, buf, readerPc, readerLine,
              loopPc, loopLine, got>>
lwVars   == <<listenPc, handlers, posted>>
capVars  == <<requiredServerCapabilities, serverCapabilities, available>>
wrVars   == <<written, wrPc, wrArg, wrRet, wrCalls>>
runVars  == <<runPc, runRet, runCtx, capsOk, input, pendingErr, errsSeen, errsClosed,
              srvState, inits, out, inputs, errsRecv, lwVars, capVars>>
soloVars == <<done, sess_closed, closed, panicked, stopVars, sendVars, msgVars,
              sessVars, apiVars>>

\* ------------------------------------------------------------------- state

\* NewStdIO: fresh open channels; nothing has been called yet.
Fresh ==
  /\ done = FALSE
  /\ sess_closed = FALSE
  /\ closed = FALSE
  /\ panicked = "none"
  /\ stopPc = [c \in Stoppers |-> "idle"]
  /\ sendPc = [s \in Sends |-> "idle"]
  /\ sendRet = [s \in Sends |-> "none"]
  /\ sendLate = [s \in Sends |-> FALSE]
  /\ ctxDone = FALSE
  /\ wPc = [s \in Sends |-> "none"]
  /\ wRes = [s \in Sends |-> "none"]
  /\ writes = [s \in Sends |-> 0]
  /\ errs = [s \in Sends |-> <<>>]
  /\ sendMsg = [s \in Sends |-> "none"]
  /\ wire = <<>>
  /\ nread = 0
  /\ eof = FALSE
  /\ msgPc = "idle"
  /\ msgIter = 0
  /\ rd = [i \in MsgIters |-> "none"]
  /\ rdLwe = [i \in MsgIters |-> NoLwe]
  /\ lwe = NoLwe
  /\ arrived = <<>>
  /\ delivered = <<>>
  /\ msgEnd = [i \in MsgIters |-> "none"]
  /\ sessPc = "idle"
  /\ sessIter = 0
  /\ sessYields = <<>>
  /\ sessBroke = FALSE
  /\ startPc = "idle"
  /\ starts = 0
  /\ ready = [closed |-> FALSE, sent |-> <<>>]
  /\ startRet = [seq |-> "none", err |-> "none"]
  /\ shutdowns = 0
  /\ sent = [e \in Endpoints |-> <<>>]
  /\ callPc = [e \in Endpoints |-> "idle"]
  /\ rets = [e \in Endpoints |-> <<>>]
  /\ writerPc = [e \in Endpoints |-> "none"]
  /\ errsCh = [e \in Endpoints |-> <<>>]
  /\ pipe = [e \in Endpoints |-> <<>>]
  /\ buf = [e \in Endpoints |-> <<>>]
  /\ readerPc = [e \in Endpoints |-> "none"]
  /\ readerLine = [e \in Endpoints |-> <<>>]
  /\ loopPc = [e \in Endpoints |-> "idle"]
  /\ loopLine = [e \in Endpoints |-> <<>>]
  /\ got = [e \in Endpoints |-> <<>>]
  /\ runPc = "idle"
  /\ runRet = "none"
  /\ runCtx = FALSE
  /\ input = "none"
  /\ pendingErr = "none"
  /\ errsSeen = <<>>
  /\ errsClosed = FALSE
  /\ srvState = "new"
  /\ inits = 0
  /\ out = <<>>
  /\ inputs = 0
  /\ listenPc = "off"
  /\ handlers = [srv |-> 0, cli |-> 0]
  /\ posted = 0
  /\ available = [group |-> "none", ret |-> FALSE]
  /\ written = <<>>
  /\ wrPc = "idle"
  /\ wrArg = <<>>
  /\ wrRet = NoRet
  /\ wrCalls = 0

\* A client that requires nothing of a server that offers nothing.
NoCaps == requiredServerCapabilities = {} /\ serverCapabilities = {}

Init ==
  Fresh /\ quota = MaxCalls /\ tail = FALSE /\ capsOk = TRUE /\ errsRecv = TRUE /\ NoCaps

\* A panic ends the process: no goroutine takes another step.
Running == panicked = "none"

\* What the environment has done so far.
Calls ==
  Cardinality({c \in Stoppers : stopPc[c] # "idle"})
    + Cardinality({s \in Sends : sendPc[s] # "idle"})
    + msgIter + sessIter + nread + (IF ctxDone THEN 1 ELSE 0) + starts + shutdowns

\* -------------------------------------------------------------------- Stop

\* close(s.done): a close of a closed channel panics.
StopClose(c) ==
  /\ Running
  /\ stopPc[c] = "idle"
  /\ c > 1 => stopPc[c - 1] # "idle"
  /\ Calls < quota
  /\ IF done
       THEN /\ panicked' = "Stop"
            /\ stopPc' = [stopPc EXCEPT ![c] = "panicked"]
            /\ UNCHANGED done
       ELSE /\ done' = TRUE
            /\ stopPc' = [stopPc EXCEPT ![c] = "wait"]
            /\ UNCHANGED panicked
  /\ UNCHANGED <<envVars, wrVars, apiVars, pairVars, runVars, sess_closed, closed, sendVars, msgVars, sessVars>>

\* <-s.closed
StopWait(c) ==
  /\ Running
  /\ stopPc[c] = "wait"
  /\ sess_closed
  /\ stopPc' = [stopPc EXCEPT ![c] = "returned"]
  /\ UNCHANGED <<envVars, wrVars, apiVars, pairVars, runVars, done, sess_closed, closed, panicked, sendVars, msgVars, sessVars>>

Stop(c) == StopClose(c) \/ StopWait(c)

\* -------------------------------------------------------------------- Send

\* Frame without the delimiter.
Frame_NoNewline(m) == <<Marshal(m).doc>>

\* json.Marshal(msg) followed by the newline that frames it.
Frame(m) == <<Marshal(m).doc, "\n">>

\* Send up to the select: the message is marshalled (a failure returns the
\* marshal error at once), errs is made and the write goroutine is spawned.
SendCall(s) ==
  /\ Running
  /\ sendPc[s] = "idle"
  /\ s > 1 => sendPc[s - 1] # "idle"
  /\ Calls < quota
  /\ \E m \in Msgs :
       /\ sendMsg' = [sendMsg EXCEPT ![s] = m]
       /\ IF Marshal(m).ok
            THEN /\ sendPc' = [sendPc EXCEPT ![s] = "select"]
                 /\ wPc' = [wPc EXCEPT ![s] = "check"]
                 /\ UNCHANGED sendRet
            ELSE /\ sendPc' = [sendPc EXCEPT ![s] = "returned"]
                 /\ sendRet' = [sendRet EXCEPT ![s] = "marshalErr"]
                 /\ UNCHANGED wPc
  /\ sendLate' = [sendLate EXCEPT ![s] = done]
  /\ UNCHANGED <<envVars, wrVars, apiVars, pairVars, runVars, done, sess_closed, closed, panicked, ctxDone, wRes, writes,
                 errs, wire, stopVars, msgVars, sessVars>>

\* The context the callers pass to StdIO.Send is cancelled (by its owner, or by
\* its deadline).
CtxCancel ==
  /\ Running
  /\ ~ctxDone
  /\ Calls < quota
  /\ ctxDone' = TRUE
  /\ UNCHANGED <<envVars, wrVars, apiVars, pairVars, runVars, done, sess_closed, closed, panicked, sendPc, sendRet, sendLate, wPc,
                 wRes, writes, errs, sendMsg, wire, stopVars, msgVars, sessVars>>

\* WCheck without the safeguard: the goroutine goes on to Write whatever done is.
WCheck_NoSafeguard(s) ==
  /\ Running
  /\ wPc[s] = "check"
  /\ wPc' = [wPc EXCEPT ![s] = "write"]
  /\ UNCHANGED <<envVars, wrVars, apiVars, pairVars, runVars, done, sess_closed, closed, panicked, sendPc, sendRet, sendLate, ctxDone,
                 wRes, writes, errs, sendMsg, wire, stopVars, msgVars, sessVars>>

\* The write goroutine's safeguard: select { case <-s.done: return; default: }
WCheck(s) ==
  /\ Running
  /\ wPc[s] = "check"
  /\ wPc' = [wPc EXCEPT ![s] = IF done THEN "exit" ELSE "write"]
  /\ UNCHANGED <<envVars, wrVars, apiVars, pairVars, runVars, done, sess_closed, closed, panicked, sendPc, sendRet, sendLate, ctxDone,
                 wRes, writes, errs, sendMsg, wire, stopVars, msgVars, sessVars>>

\* s.writer.Write(msgBs) is called.
WWriteBegin(s) ==
  /\ Running
  /\ wPc[s] = "write"
  /\ wPc' = [wPc EXCEPT ![s] = "inWrite"]
  /\ writes' = [writes EXCEPT ![s] = @ + 1]
  /\ UNCHANGED <<envVars, wrVars, apiVars, pairVars, runVars, done, sess_closed, closed, panicked, sendPc, sendRet, sendLate, ctxDone,
                 wRes, errs, sendMsg, wire, stopVars, msgVars, sessVars>>

\* WWriteReturn that calls Write again when Write has failed.
WWriteReturn_Retry(s) ==
  /\ Running
  /\ wPc[s] = "inWrite"
  /\ \E ok \in BOOLEAN :
       /\ wRes' = [wRes EXCEPT ![s] = IF ok THEN "nil" ELSE "err"]
       /\ wire' = IF ok THEN Append(wire, Frame(sendMsg[s])) ELSE wire
       /\ wPc' = [wPc EXCEPT ![s] = IF ok THEN "report" ELSE "write"]
  /\ UNCHANGED <<envVars, wrVars, apiVars, pairVars, runVars, done, sess_closed, closed, panicked,
                 sendPc, sendRet, sendLate, ctxDone, writes, errs, sendMsg, stopVars,
                 msgVars, sessVars>>

\* Write returns: the writer took the whole frame, or failed with an I/O error.
\* A stalled writer is one on which this step does not happen.
WWriteReturn(s) ==
  /\ Running
  /\ wPc[s] = "inWrite"
  /\ \E ok \in BOOLEAN :
       /\ wRes' = [wRes EXCEPT ![s] = IF ok THEN "nil" ELSE "err"]
       /\ wire' = IF ok THEN Append(wire, Frame(sendMsg[s])) ELSE wire
  /\ wPc' = [wPc EXCEPT ![s] = "report"]
  /\ UNCHANGED <<envVars, wrVars, apiVars, pairVars, runVars, done, sess_closed, closed, panicked, sendPc, sendRet, sendLate, ctxDone,
                 writes, errs, sendMsg, stopVars, msgVars, sessVars>>

\* WReport on an unbuffered errs: the send needs Send waiting in its select.
WReport_Unbuffered(s) ==
  /\ Running
  /\ wPc[s] = "report"
  /\ sendPc[s] = "select"
  /\ errs' = [errs EXCEPT ![s] = Append(@, wRes[s])]
  /\ wPc' = [wPc EXCEPT ![s] = "exit"]
  /\ UNCHANGED <<envVars, wrVars, apiVars, pairVars, runVars, done, sess_closed, closed, panicked,
                 sendPc, sendRet, sendLate, ctxDone, wRes, writes, sendMsg, wire,
                 stopVars, msgVars, sessVars>>

\* errs <- fmt.Errorf(...) or errs <- nil, on the buffered channel.
WReport(s) ==
  /\ Running
  /\ wPc[s] = "report"
  /\ Len(errs[s]) < ErrsCap
  /\ errs' = [errs EXCEPT ![s] = Append(@, wRes[s])]
  /\ wPc' = [wPc EXCEPT ![s] = "exit"]
  /\ UNCHANGED <<envVars, wrVars, apiVars, pairVars, runVars, done, sess_closed, closed, panicked, sendPc, sendRet, sendLate, ctxDone,
                 wRes, writes, sendMsg, wire, stopVars, msgVars, sessVars>>

\* case err := <-errs: return err
SendSelectErrs(s) ==
  /\ Running
  /\ sendPc[s] = "select"
  /\ errs[s] # <<>>
  /\ sendRet' = [sendRet EXCEPT ![s] = Head(errs[s])]
  /\ errs' = [errs EXCEPT ![s] = Tail(@)]
  /\ sendPc' = [sendPc EXCEPT ![s] = "returned"]
  /\ UNCHANGED <<envVars, wrVars, apiVars, pairVars, runVars, done, sess_closed, closed, panicked, sendLate, ctxDone, wPc, wRes,
                 writes, sendMsg, wire, stopVars, msgVars, sessVars>>

\* case <-s.done: return nil
SendSelectDone(s) ==
  /\ Running
  /\ sendPc[s] = "select"
  /\ done
  /\ sendRet' = [sendRet EXCEPT ![s] = "nil"]
  /\ sendPc' = [sendPc EXCEPT ![s] = "returned"]
  /\ UNCHANGED <<envVars, wrVars, apiVars, pairVars, runVars, done, sess_closed, closed, panicked, sendLate, ctxDone, wPc, wRes,
                 writes, errs, sendMsg, wire, stopVars, msgVars, sessVars>>

\* A select with a default case: Send returns nil when no error is there yet.
SendSelect_NoWait(s) ==
  \/ SendSelectErrs(s)
  \/ /\ Running
     /\ sendPc[s] = "select"
     /\ errs[s] = <<>>
     /\ sendRet' = [sendRet EXCEPT ![s] = "nil"]
     /\ sendPc' = [sendPc EXCEPT ![s] = "returned"]
     /\ UNCHANGED <<envVars, wrVars, apiVars, pairVars, runVars, done, sess_closed, closed,
                    panicked, sendLate, ctxDone, wPc, wRes, writes, errs, sendMsg, wire,
                    stopVars, msgVars, sessVars>>

\* SendSelect without its done case.
SendSelect_NoDoneCase(s) == SendSelectErrs(s)

\* The select of Send: Go picks among the ready cases at random.  The context
\* StdIO.Send receives is not passed on, so no case reads it.
SendSelect(s) == SendSelectErrs(s) \/ SendSelectDone(s)

\* ---------------------------------------------------------------- Messages

\* A consumer starts ranging over the sequence Messages returned: a new
\* bufio.Reader is made over s.reader.
MessagesStart ==
  /\ Running
  /\ msgPc \in {"idle", "returned"}
  /\ Calls < quota
  /\ msgIter' = msgIter + 1
  /\ msgPc' = "top"
  /\ arrived' = <<>>
  /\ delivered' = <<>>
  /\ UNCHANGED <<envVars, wrVars, apiVars, pairVars, runVars, done, sess_closed, closed, panicked, nread, eof,
                 rd, rdLwe, lwe, msgEnd,
                 stopVars, sendVars, sessVars>>

\* Top of the for loop: lines is made and the read goroutine is spawned.
MsgSpawn ==
  /\ Running
  /\ msgPc = "top"
  /\ rd' = [rd EXCEPT ![msgIter] = "reading"]
  /\ msgPc' = "select"
  /\ UNCHANGED <<envVars, wrVars, apiVars, pairVars, runVars, done, sess_closed, closed, panicked, nread, eof, msgIter, rdLwe, lwe,
                 arrived, delivered, msgEnd, stopVars, sendVars, sessVars>>

\* reader.ReadString('\n') returns in the read goroutine of iteration i: the
\* next line, a read error, or end of stream, which the reader then returns to
\* every later read.  A reader that never returns is one on which this step
\* does not happen.
RdRead(i) ==
  /\ Running
  /\ rd[i] = "reading"
  /\ IF eof
       THEN /\ rdLwe' = [rdLwe EXCEPT ![i] = [line |-> "", err |-> "EOF"]]
            /\ UNCHANGED <<nread, eof>>
       ELSE /\ Calls < quota
            /\ \E item \in Items \cup (IF tail THEN Tails ELSE {}) :
                 /\ rdLwe' = [rdLwe EXCEPT ![i] = item]
                 /\ eof' = (item.err = "EOF")
            /\ nread' = nread + 1
  /\ arrived' = Append(arrived, rdLwe'[i])
  /\ rd' = [rd EXCEPT ![i] = "handoff"]
  /\ UNCHANGED <<envVars, wrVars, apiVars, pairVars, runVars, done, sess_closed, closed, panicked, msgPc, msgIter, lwe,
                 delivered, msgEnd, stopVars, sendVars, sessVars>>

\* case lwe = <-lines: the unbuffered hand-over from the read goroutine.
MsgSelectLines ==
  /\ Running
  /\ msgPc = "select"
  /\ rd[msgIter] = "handoff"
  /\ lwe' = Handoff(rdLwe[msgIter])
  /\ rdLwe' = [rdLwe EXCEPT ![msgIter] = NoLwe]
  /\ rd' = [rd EXCEPT ![msgIter] = "exit"]
  /\ msgPc' = "handle"
  /\ UNCHANGED <<envVars, wrVars, apiVars, pairVars, runVars, done, sess_closed, closed, panicked, nread, eof, msgIter,
                 arrived, delivered, msgEnd, stopVars, sendVars, sessVars>>

\* case <-s.done: return
MsgSelectDone ==
  /\ Running
  /\ msgPc = "select"
  /\ done
  /\ msgPc' = "closing"
  /\ msgEnd' = [msgEnd EXCEPT ![msgIter] = "done"]
  /\ UNCHANGED <<envVars, wrVars, apiVars, pairVars, runVars, done, sess_closed, closed, panicked, nread, eof, msgIter, rd, rdLwe,
                 lwe, arrived, delivered, stopVars, sendVars, sessVars>>

\* MsgSelect without its done case.
MsgSelect_NoDoneCase == MsgSelectLines

\* The select of the Messages loop.
MsgSelect == MsgSelectLines \/ MsgSelectDone

\* MsgHandle that gives up on a line that does not unmarshal, as it does on a
\* read error.
MsgHandle_ReturnOnBadJSON ==
  /\ Running
  /\ msgPc = "handle"
  /\ IF lwe.err # "nil"
       THEN /\ msgPc' = "closing"
            /\ msgEnd' = [msgEnd EXCEPT ![msgIter] = lwe.err]
            /\ UNCHANGED delivered
       ELSE IF lwe.line = ""
         THEN msgPc' = "top" /\ UNCHANGED <<delivered, msgEnd>>
         ELSE IF ~Unmarshal(lwe.line).ok
           THEN /\ msgPc' = "closing"
                /\ msgEnd' = [msgEnd EXCEPT ![msgIter] = "ERR"]
                /\ UNCHANGED delivered
           ELSE /\ msgPc' = "yield"
                /\ delivered' = Append(delivered, Unmarshal(lwe.line).msg)
                /\ UNCHANGED msgEnd
  /\ lwe' = NoLwe
  /\ UNCHANGED <<envVars, wrVars, apiVars, pairVars, runVars, done, sess_closed, closed, panicked, nread, eof, msgIter,
                 rd, rdLwe, arrived, stopVars, sendVars, sessVars>>

\* MsgHandle that logs a read error other than EOF and reads on.
MsgHandle_ContinueOnError ==
  /\ Running
  /\ msgPc = "handle"
  /\ IF lwe.err = "EOF"
       THEN /\ msgPc' = "closing"
            /\ msgEnd' = [msgEnd EXCEPT ![msgIter] = lwe.err]
            /\ UNCHANGED delivered
       ELSE IF lwe.err # "nil" \/ lwe.line = "" \/ ~Unmarshal(lwe.line).ok
         THEN msgPc' = "top" /\ UNCHANGED <<delivered, msgEnd>>
         ELSE /\ msgPc' = "yield"
              /\ delivered' = Append(delivered, Unmarshal(lwe.line).msg)
              /\ UNCHANGED msgEnd
  /\ lwe' = NoLwe
  /\ UNCHANGED <<envVars, wrVars, apiVars, pairVars, runVars, done, sess_closed, closed, panicked, nread, eof,
                 msgIter, rd, rdLwe, arrived, stopVars, sendVars, sessVars>>

\* From the select to the next suspension: an error (EOF or not) returns, an
\* empty line and a line that does not unmarshal continue, a message is yielded.
\* The loop does not read lwe again before it receives the next one.
MsgHandle ==
  /\ Running
  /\ msgPc = "handle"
  /\ IF lwe.err # "nil"
       THEN /\ msgPc' = "closing"
            /\ msgEnd' = [msgEnd EXCEPT ![msgIter] = lwe.err]
            /\ UNCHANGED delivered
       ELSE IF lwe.line = "" \/ ~Unmarshal(lwe.line).ok
         THEN msgPc' = "top" /\ UNCHANGED <<delivered, msgEnd>>
         ELSE /\ msgPc' = "yield"
              /\ delivered' = Append(delivered, Unmarshal(lwe.line).msg)
              /\ UNCHANGED msgEnd
  /\ lwe' = NoLwe
  /\ UNCHANGED <<envVars, wrVars, apiVars, pairVars, runVars, done, sess_closed, closed, panicked, nread, eof, msgIter, rd, rdLwe,
                 arrived, stopVars, sendVars, sessVars>>

\* MsgYieldReturn that does not look at what yield returned.
MsgYieldReturn_IgnoreBreak ==
  /\ Running
  /\ msgPc = "yield"
  /\ \E more \in BOOLEAN :
       /\ msgPc' = "top"
       /\ msgEnd' = IF more THEN msgEnd ELSE [msgEnd EXCEPT ![msgIter] = "break"]
  /\ UNCHANGED <<envVars, wrVars, apiVars, pairVars, runVars, done, sess_closed, closed, panicked,
                 nread, eof, msgIter, rd, rdLwe, lwe, arrived, delivered, stopVars,
                 sendVars, sessVars>>

\* The consumer's range body ends: yield returns true (next message) or false
\* (the consumer broke out).
MsgYieldReturn ==
  /\ Running
  /\ msgPc = "yield"
  /\ \E more \in BOOLEAN :
       /\ msgPc' = IF more THEN "top" ELSE "closing"
       /\ msgEnd' = IF more THEN msgEnd ELSE [msgEnd EXCEPT ![msgIter] = "break"]
  /\ UNCHANGED <<envVars, wrVars, apiVars, pairVars, runVars, done, sess_closed, closed, panicked, nread, eof, msgIter, rd, rdLwe,
                 lwe, arrived, delivered, stopVars, sendVars, sessVars>>

\* defer close(s.closed), on every return of the iteration.
MsgClose ==
  /\ Running
  /\ msgPc = "closing"
  /\ IF sess_closed
       THEN /\ panicked' = "Messages"
            /\ UNCHANGED <<sess_closed, msgPc>>
       ELSE /\ sess_closed' = TRUE
            /\ msgPc' = "returned"
            /\ UNCHANGED panicked
  /\ UNCHANGED <<envVars, wrVars, apiVars, pairVars, runVars, done, closed, nread, eof, msgIter, rd, rdLwe, lwe, arrived,
                 delivered, msgEnd, stopVars, sendVars, sessVars>>

\* ---------------------------------------------------------------- Sessions

\* ID numbering the sessions as they are yielded.
ID_PerIteration == IF sessIter = 0 THEN "1" ELSE "2"

\* stdIOSession.ID
ID == "1"

\* A consumer starts ranging over the sequence Sessions returned: yield(s.sess).
SessionsYield ==
  /\ Running
  /\ sessPc \in {"idle", "returned"}
  /\ Calls < quota
  /\ sessIter' = sessIter + 1
  /\ sessYields' = <<ID>>
  /\ sessBroke' = FALSE
  /\ sessPc' = "yield"
  /\ UNCHANGED <<envVars, wrVars, apiVars, pairVars, runVars, done, sess_closed, closed, panicked, stopVars, sendVars, msgVars>>

\* The consumer's range body ends, by falling through or by break; Sessions
\* does not look at what yield returns.
SessionsYieldReturn ==
  /\ Running
  /\ sessPc = "yield"
  /\ \E more \in BOOLEAN : sessBroke' = ~more
  /\ sessPc' = "wait"
  /\ UNCHANGED <<envVars, wrVars, apiVars, pairVars, runVars, done, sess_closed, closed, panicked, sessIter, sessYields,
                 stopVars, sendVars, msgVars>>

\* SessionsWait without the wait: the iterator returns once the body has run.
SessionsWait_NoWait ==
  /\ Running
  /\ sessPc = "wait"
  /\ sessPc' = "closing"
  /\ UNCHANGED <<envVars, wrVars, apiVars, pairVars, runVars, done, sess_closed, closed, panicked, sessIter, sessYields, sessBroke,
                 stopVars, sendVars, msgVars>>

\* <-s.sess.done
SessionsWait ==
  /\ Running
  /\ sessPc = "wait"
  /\ done
  /\ sessPc' = "closing"
  /\ UNCHANGED <<envVars, wrVars, apiVars, pairVars, runVars, done, sess_closed, closed, panicked, sessIter, sessYields, sessBroke,
                 stopVars, sendVars, msgVars>>

\* defer close(s.closed): the iterator returns and the range statement ends.
SessionsClose ==
  /\ Running
  /\ sessPc = "closing"
  /\ IF closed
       THEN /\ panicked' = "Sessions"
            /\ UNCHANGED <<closed, sessPc>>
       ELSE /\ closed' = TRUE
            /\ sessPc' = "returned"
            /\ UNCHANGED panicked
  /\ UNCHANGED <<envVars, wrVars, apiVars, pairVars, runVars, done, sess_closed, sessIter, sessYields, sessBroke,
                 stopVars, sendVars, msgVars>>

\* ------------------------------------------------- StartSession, Shutdown

\* StartSession that reports readiness by sending nil on ready.
StartSessionClose_SendNil ==
  /\ Running
  /\ startPc \in {"idle", "returned"}
  /\ Calls < quota
  /\ starts' = starts + 1
  /\ ready' = [closed |-> FALSE, sent |-> <<"nil">>]
  /\ startRet' = [seq |-> "none", err |-> "none"]
  /\ startPc' = "closed"
  /\ UNCHANGED <<envVars, wrVars, pairVars, runVars, done, sess_closed, closed, panicked, shutdowns,
                 stopVars, sendVars, msgVars, sessVars>>

\* StartSession is called with a ready channel the caller has just made:
\* close(ready).
StartSessionClose ==
  /\ Running
  /\ startPc \in {"idle", "returned"}
  /\ Calls < quota
  /\ starts' = starts + 1
  /\ ready' = [closed |-> TRUE, sent |-> <<>>]
  /\ startRet' = [seq |-> "none", err |-> "none"]
  /\ startPc' = "closed"
  /\ UNCHANGED <<envVars, wrVars, pairVars, runVars, done, sess_closed, closed, panicked, shutdowns,
                 stopVars, sendVars, msgVars, sessVars>>

\* return s.sess.Messages(), nil
StartSessionReturn ==
  /\ Running
  /\ startPc = "closed"
  /\ startRet' = [seq |-> "Messages", err |-> "nil"]
  /\ startPc' = "returned"
  /\ UNCHANGED <<envVars, wrVars, pairVars, runVars, done, sess_closed, closed, panicked, starts, ready, shutdowns,
                 stopVars, sendVars, msgVars, sessVars>>

\* StdIO.Shutdown: return nil, and nothing else.
Shutdown ==
  /\ Running
  /\ Calls < quota
  /\ shutdowns' = shutdowns + 1
  /\ UNCHANGED <<envVars, wrVars, pairVars, runVars, done, sess_closed, closed, panicked, startPc, starts, ready,
                 startRet, stopVars, sendVars, msgVars, sessVars>>

\* ------------------------------------------------ two connected endpoints
\* Each endpoint runs the Send and the Messages of stdio.go on its own session;
\* neither session is stopped, so no done channel is closed and no select takes
\* a done case.  A line is the sequence of the pieces read: a document, "\n".

HasNewline(b) == \E k \in 1..Len(b) : b[k] = "\n"
FirstNewline(b) == CHOOSE k \in 1..Len(b) : b[k] = "\n" /\ \A j \in 1..(k - 1) : b[j] # "\n"

\* strings.TrimSuffix(line, "\n")
TrimSuffix(line) ==
  IF line # <<>> /\ line[Len(line)] = "\n" THEN SubSeq(line, 1, Len(line) - 1) ELSE line

\* json.Unmarshal of a line read from the pipe: two documents in a row are not
\* a document.
UnmarshalLine(line) ==
  IF Len(line) = 1 THEN Unmarshal(line[1]) ELSE [ok |-> FALSE, msg |-> "none"]

\* Send up to its select, called by the sender of e with a valid message.
PairSendCall(e) ==
  /\ callPc[e] = "idle"
  /\ Len(sent[e]) < PairSends
  /\ \E m \in ValidMsgs : sent' = [sent EXCEPT ![e] = Append(@, m)]
  /\ callPc' = [callPc EXCEPT ![e] = "select"]
  /\ writerPc' = [writerPc EXCEPT ![e] = "check"]
  /\ errsCh' = [errsCh EXCEPT ![e] = <<>>]
  /\ UNCHANGED <<envVars, wrVars, soloVars, runVars, rets, pipe, buf, readerPc, readerLine, loopPc,
                 loopLine, got>>

\* The write goroutine's safeguard takes its default case.
PairWCheck(e) ==
  /\ writerPc[e] = "check"
  /\ writerPc' = [writerPc EXCEPT ![e] = "write"]
  /\ UNCHANGED <<envVars, wrVars, soloVars, runVars, sent, callPc, rets, errsCh, pipe, buf, readerPc,
                 readerLine, loopPc, loopLine, got>>

\* s.writer.Write(msgBs) on the pipe: the frame is offered to the peer's reads.
PairWriteBegin(e) ==
  /\ writerPc[e] = "write"
  /\ pipe[e] = <<>>
  /\ pipe' = [pipe EXCEPT ![e] = Frame(sent[e][Len(sent[e])])]
  /\ writerPc' = [writerPc EXCEPT ![e] = "inWrite"]
  /\ UNCHANGED <<envVars, wrVars, soloVars, runVars, sent, callPc, rets, errsCh, buf, readerPc,
                 readerLine, loopPc, loopLine, got>>

\* The Write on the pipe returns nil once the peer has read all of the frame.
PairWriteReturn(e) ==
  /\ writerPc[e] = "inWrite"
  /\ pipe[e] = <<>>
  /\ writerPc' = [writerPc EXCEPT ![e] = "report"]
  /\ UNCHANGED <<envVars, wrVars, soloVars, runVars, sent, callPc, rets, errsCh, pipe, buf, readerPc,
                 readerLine, loopPc, loopLine, got>>

\* errs <- nil
PairWReport(e) ==
  /\ writerPc[e] = "report"
  /\ Len(errsCh[e]) < ErrsCap
  /\ errsCh' = [errsCh EXCEPT ![e] = Append(@, "nil")]
  /\ writerPc' = [writerPc EXCEPT ![e] = "exit"]
  /\ UNCHANGED <<envVars, wrVars, soloVars, runVars, sent, callPc, rets, pipe, buf, readerPc,
                 readerLine, loopPc, loopLine, got>>

\* case err := <-errs: return err
PairSendSelect(e) ==
  /\ callPc[e] = "select"
  /\ errsCh[e] # <<>>
  /\ rets' = [rets EXCEPT ![e] = Append(@, Head(errsCh[e]))]
  /\ errsCh' = [errsCh EXCEPT ![e] = Tail(@)]
  /\ callPc' = [callPc EXCEPT ![e] = "idle"]
  /\ UNCHANGED <<envVars, wrVars, soloVars, runVars, sent, writerPc, pipe, buf, readerPc,
                 readerLine, loopPc, loopLine, got>>

\* The consumer of e starts ranging over its message sequence.
PairMessagesStart(e) ==
  /\ loopPc[e] = "idle"
  /\ loopPc' = [loopPc EXCEPT ![e] = "top"]
  /\ UNCHANGED <<envVars, wrVars, soloVars, runVars, sent, callPc, rets, writerPc, errsCh, pipe, buf,
                 readerPc, readerLine, loopLine, got>>

\* Top of the for loop: the read goroutine is spawned.
PairSpawn(e) ==
  /\ loopPc[e] = "top"
  /\ readerPc' = [readerPc EXCEPT ![e] = "reading"]
  /\ loopPc' = [loopPc EXCEPT ![e] = "select"]
  /\ UNCHANGED <<envVars, wrVars, soloVars, runVars, sent, callPc, rets, writerPc, errsCh, pipe, buf,
                 readerLine, loopLine, got>>

\* ReadString finds no delimiter in the buffer and reads the pipe: it gets the
\* next piece, or pieces, of the Write in flight.
PairFill(e) ==
  /\ readerPc[e] = "reading"
  /\ ~HasNewline(buf[e])
  /\ \E n \in 1..Len(pipe[Peer(e)]) :
       /\ buf' = [buf EXCEPT ![e] = @ \o SubSeq(pipe[Peer(e)], 1, n)]
       /\ pipe' = [pipe EXCEPT ![Peer(e)] = SubSeq(@, n + 1, Len(@))]
  /\ UNCHANGED <<envVars, wrVars, soloVars, runVars, sent, callPc, rets, writerPc, errsCh, readerPc,
                 readerLine, loopPc, loopLine, got>>

\* ReadString returns the buffer up to its first delimiter; the goroutine trims
\* the delimiter and offers the line.
PairReadString(e) ==
  /\ readerPc[e] = "reading"
  /\ HasNewline(buf[e])
  /\ readerLine' = [readerLine EXCEPT ![e] = TrimSuffix(SubSeq(buf[e], 1, FirstNewline(buf[e])))]
  /\ buf' = [buf EXCEPT ![e] = SubSeq(@, FirstNewline(@) + 1, Len(@))]
  /\ readerPc' = [readerPc EXCEPT ![e] = "handoff"]
  /\ UNCHANGED <<envVars, wrVars, soloVars, runVars, sent, callPc, rets, writerPc, errsCh, pipe,
                 loopPc, loopLine, got>>

\* case lwe = <-lines
PairSelectLines(e) ==
  /\ loopPc[e] = "select"
  /\ readerPc[e] = "handoff"
  /\ loopLine' = [loopLine EXCEPT ![e] = readerLine[e]]
  /\ readerLine' = [readerLine EXCEPT ![e] = <<>>]
  /\ readerPc' = [readerPc EXCEPT ![e] = "exit"]
  /\ loopPc' = [loopPc EXCEPT ![e] = "handle"]
  /\ UNCHANGED <<envVars, wrVars, soloVars, runVars, sent, callPc, rets, writerPc, errsCh, pipe, buf, got>>

\* An empty line and a line that does not unmarshal continue, a message is
\* yielded.
PairHandle(e) ==
  /\ loopPc[e] = "handle"
  /\ IF loopLine[e] = <<>> \/ ~UnmarshalLine(loopLine[e]).ok
       THEN loopPc' = [loopPc EXCEPT ![e] = "top"] /\ UNCHANGED got
       ELSE /\ loopPc' = [loopPc EXCEPT ![e] = "yield"]
            /\ got' = [got EXCEPT ![e] = Append(@, UnmarshalLine(loopLine[e]).msg)]
  /\ loopLine' = [loopLine EXCEPT ![e] = <<>>]
  /\ UNCHANGED <<envVars, wrVars, soloVars, runVars, sent, callPc, rets, writerPc, errsCh, pipe, buf,
                 readerPc, readerLine>>

\* The consumer's range body ends and asks for the next message.
PairYieldReturn(e) ==
  /\ loopPc[e] = "yield"
  /\ loopPc' = [loopPc EXCEPT ![e] = "top"]
  /\ UNCHANGED <<envVars, wrVars, soloVars, runVars, sent, callPc, rets, writerPc, errsCh, pipe, buf,
                 readerPc, readerLine, loopLine, got>>

\* ------------------------------------------------------- StdIOClient.Run
\* One Run of a StdIOClient over the reader in, the writer out and the channel
\* errsChan, with the listenWritter goroutine it spawns.

\* The methods Run has a case for (two of the eight, which all have the same
\* shape).
Handled == {"prompts/list", "tools/call"}

\* What one Read of in yields: bytes that are not a JSON message, a read
\* error, a request of a method Run handles, a request of another method.
InputKinds == {"invalidJSON", "readErr", "unknown"} \cup Handled

\* What a handler does with a request: it writes the result, its params do
\* not decode, or the operation (or the write of its result) fails.
Outcomes == {"ok", "errInvalidJSON", "opErr"}

\* client.initialize: the handshake fails when a capability one side requires
\* is missing on the other.
Initialize(ok) == IF ok THEN "nil" ELSE "missingCapability"

\* s.currentSessionID: the identifier of the session started last.
currentSessionID == inits

\* Run is called: s.srv.srv.start(), the deferred calls are registered,
\* listenWritter is spawned.
RunStart ==
  /\ runPc = "idle"
  /\ srvState' = "started"
  /\ listenPc' = "listening"
  /\ runPc' = "wait"
  /\ UNCHANGED <<envVars, wrVars, soloVars, pairVars, capVars, runRet, runCtx, capsOk, input, pendingErr,
                 errsSeen, errsClosed, inits, out, inputs, errsRecv, handlers, posted>>

\* The context passed to Run is cancelled.
RunCtxCancel ==
  /\ runPc # "idle"
  /\ ~runCtx
  /\ runCtx' = TRUE
  /\ UNCHANGED <<envVars, wrVars, soloVars, pairVars, capVars, runPc, runRet, capsOk, input, pendingErr,
                 errsSeen, errsClosed, srvState, inits, out, inputs, errsRecv, lwVars>>

\* waitStdIOInput, case <-ctx.Done(): Run returns ctx.Err().
RunWaitCtx ==
  /\ runPc = "wait"
  /\ runCtx
  /\ runRet' = "ctxErr"
  /\ runPc' = "closing"
  /\ UNCHANGED <<envVars, wrVars, soloVars, pairVars, capVars, runCtx, capsOk, input, pendingErr,
                 errsSeen, errsClosed, srvState, inits, out, inputs, errsRecv, lwVars>>

\* waitStdIOInput, the other cases: a read error makes Run return it, bytes
\* that do not unmarshal are reported on errsChan, a message goes on.
RunWaitInput ==
  /\ runPc = "wait"
  /\ inputs < quota
  /\ inputs' = inputs + 1
  /\ \E kind \in InputKinds :
       /\ input' = kind
       /\ CASE kind = "readErr" ->
                 /\ runRet' = "readErr" /\ runPc' = "closing"
                 /\ UNCHANGED pendingErr
            [] kind = "invalidJSON" ->
                 /\ pendingErr' = "errInvalidJSON" /\ runPc' = "sendErr"
                 /\ UNCHANGED runRet
            [] OTHER ->
                 /\ runPc' = "startSession"
                 /\ UNCHANGED <<pendingErr, runRet>>
  /\ UNCHANGED <<envVars, wrVars, soloVars, pairVars, capVars, runCtx, capsOk, errsSeen, errsClosed,
                 srvState, inits, out, errsRecv, lwVars>>

RunWait == RunWaitCtx \/ RunWaitInput

\* s.currentSessionID = s.srv.srv.startSession(...); s.cli.startSession(...)
RunStartSession ==
  /\ runPc = "startSession"
  /\ inits' = inits + 1
  /\ runPc' = "initialize"
  /\ UNCHANGED <<envVars, wrVars, soloVars, pairVars, capVars, runRet, runCtx, capsOk, input, pendingErr,
                 errsSeen, errsClosed, srvState, out, inputs, errsRecv, lwVars>>

\* if err := s.cli.initialize(sessCtx); err != nil { errsChan <- ...; continue }
RunInitialize ==
  /\ runPc = "initialize"
  /\ IF Initialize(capsOk) = "nil"
       THEN runPc' = "dispatch" /\ UNCHANGED pendingErr
       ELSE runPc' = "sendErr" /\ pendingErr' = "failed to initialize session"
  /\ UNCHANGED <<envVars, wrVars, soloVars, pairVars, capVars, runRet, runCtx, capsOk, input, errsSeen,
                 errsClosed, srvState, inits, out, inputs, errsRecv, lwVars>>

\* switch input.Method: a handler writes its result to out with the id of the
\* request, or returns an error, which Run reports on errsChan; a request of
\* any other method is skipped.
RunDispatch ==
  /\ runPc = "dispatch"
  /\ IF input \notin Handled
       THEN runPc' = "wait" /\ input' = "none" /\ UNCHANGED <<pendingErr, out>>
       ELSE \E o \in Outcomes :
              IF o = "ok"
                THEN /\ out' = Append(out, [id |-> inputs, kind |-> "result"])
                     /\ runPc' = "wait"
                     /\ input' = "none"
                     /\ UNCHANGED pendingErr
                ELSE /\ pendingErr' = o
                     /\ runPc' = "sendErr"
                     /\ UNCHANGED <<out, input>>
  /\ UNCHANGED <<envVars, wrVars, soloVars, pairVars, capVars, runRet, runCtx, capsOk, errsSeen,
                 errsClosed, srvState, inits, inputs, errsRecv, lwVars>>

\* Run returns the error instead of reporting it.
RunSendErr_Return ==
  /\ runPc = "sendErr"
  /\ errsRecv
  /\ runRet' = pendingErr
  /\ pendingErr' = "none"
  /\ input' = "none"
  /\ runPc' = "closing"
  /\ UNCHANGED <<envVars, wrVars, soloVars, pairVars, capVars, runCtx, capsOk, errsClosed, errsSeen,
                 srvState, inits, out, inputs, errsRecv, lwVars>>

\* errsChan <- err; continue: a plain send, which ends when the caller of Run
\* receives the error.
RunSendErr ==
  /\ runPc = "sendErr"
  /\ errsRecv
  /\ errsSeen' = Append(errsSeen, pendingErr)
  /\ pendingErr' = "none"
  /\ input' = "none"
  /\ runPc' = "wait"
  /\ UNCHANGED <<envVars, wrVars, soloVars, pairVars, capVars, runRet, runCtx, capsOk, errsClosed,
                 srvState, inits, out, inputs, errsRecv, lwVars>>

\* The deferred calls run without closing errsChan.
RunClose_NoClose ==
  /\ runPc = "closing"
  /\ srvState' = "stopped"
  /\ runPc' = "returned"
  /\ UNCHANGED <<envVars, wrVars, soloVars, pairVars, capVars, runRet, runCtx, capsOk, input, pendingErr,
                 errsSeen, errsClosed, inits, out, inputs, errsRecv, lwVars>>

\* The deferred calls: s.srv.srv.stop(); close(errsChan).
RunClose ==
  /\ runPc = "closing"
  /\ srvState' = "stopped"
  /\ errsClosed' = TRUE
  /\ runPc' = "returned"
  /\ UNCHANGED <<envVars, wrVars, soloVars, pairVars, capVars, runRet, runCtx, capsOk, input, pendingErr,
                 errsSeen, inits, out, inputs, errsRecv, lwVars>>

\* While Run is inside initialize or an operation of the client, a session
\* writes a message to s.writter: stdIOWritter.Write sends it on msgChan,
\* listenWritter receives it, marshals it and spawns a goroutine for it.
ListenRecv ==
  /\ runPc \in {"initialize", "dispatch"}
  /\ listenPc = "listening"
  /\ posted < quota
  /\ posted' = posted + 1
  /\ handlers' = [handlers EXCEPT !.srv = @ + 1]
  /\ UNCHANGED <<envVars, wrVars, soloVars, pairVars, capVars, runPc, runRet, runCtx, capsOk, input,
                 pendingErr, errsSeen, errsClosed, srvState, inits, out, inputs,
                 errsRecv, listenPc>>

\* listenWritter, case <-ctx.Done(): it returns.
ListenCtx ==
  /\ listenPc = "listening"
  /\ runCtx
  /\ listenPc' = "returned"
  /\ UNCHANGED <<envVars, wrVars, soloVars, pairVars, capVars, runPc, runRet, runCtx, capsOk, input,
                 pendingErr, errsSeen, errsClosed, srvState, inits, out, inputs,
                 errsRecv, handlers, posted>>

\* A spawned goroutine reads s.currentSessionID and calls srv.handleMsg; on
\* an error it returns, otherwise it goes on to the client.
HandleSrv ==
  /\ handlers.srv > 0
  /\ \E ok \in BOOLEAN :
       handlers' = [srv |-> handlers.srv - 1,
                    cli |-> IF ok THEN handlers.cli + 1 ELSE handlers.cli]
  /\ UNCHANGED <<envVars, wrVars, soloVars, pairVars, capVars, runPc, runRet, runCtx, capsOk, input,
                 pendingErr, errsSeen, errsClosed, srvState, inits, out, inputs,
                 errsRecv, listenPc, posted>>

\* The goroutine reads s.currentSessionID again, calls cli.handleMsg and ends.
HandleCli ==
  /\ handlers.cli > 0
  /\ handlers' = [handlers EXCEPT !.cli = @ - 1]
  /\ UNCHANGED <<envVars, wrVars, soloVars, pairVars, capVars, runPc, runRet, runCtx, capsOk, input,
                 pendingErr, errsSeen, errsClosed, srvState, inits, out, inputs,
                 errsRecv, listenPc, posted>>

\* ------------------------------------------------------ stdIOWritter.Write

\* Write(p) up to its return or its send: p is appended to s.written; when the
\* whole buffer does not unmarshal Write returns (len(p), nil) and keeps the
\* buffer, otherwise it empties the buffer and goes on to send the message.
WriterWrite(p) ==
  /\ listenPc # "off"
  /\ wrPc = "idle"
  /\ wrCalls < quota
  /\ wrCalls' = wrCalls + 1
  /\ wrArg' = p
  /\ IF UnmarshalWritten(written \o p).ok
       THEN written' = <<>> /\ wrPc' = "sending" /\ UNCHANGED wrRet
       ELSE written' = written \o p /\ wrRet' = [n |-> Len(p), err |-> "nil"]
                                     /\ UNCHANGED wrPc
  /\ UNCHANGED <<envVars, soloVars, pairVars, runVars>>

\* s.msgChan <- msg meets `case msg = <-s.writter.msgChan` of listenWritter,
\* which marshals the message and spawns a goroutine for it; Write returns.
WriterSend ==
  /\ wrPc = "sending"
  /\ listenPc = "listening"
  /\ posted' = posted + 1
  /\ handlers' = [handlers EXCEPT !.srv = @ + 1]
  /\ wrPc' = "idle"
  /\ wrRet' = [n |-> Len(wrArg), err |-> "nil"]
  /\ UNCHANGED <<envVars, soloVars, pairVars, capVars, runPc, runRet, runCtx, capsOk, input,
                 pendingErr, errsSeen, errsClosed, srvState, inits, out, inputs,
                 errsRecv, listenPc, written, wrArg, wrCalls>>

\* ------------------------------------------- StdIOClient.*CommandsAvailable

\* The feature groups a server may offer and a client may require.
Groups == {"prompts", "resources", "tools"}

\* return s.cli.requiredServerCapabilities.Prompts != nil
PromptsCommandsAvailable == "prompts" \in requiredServerCapabilities

\* return s.cli.requiredServerCapabilities.Resources != nil
ResourcesCommandsAvailable == "resources" \in requiredServerCapabilities

\* return s.cli.requiredServerCapabilities.Tools != nil
ToolsCommandsAvailable == "tools" \in requiredServerCapabilities

\* A caller asks whether the commands of a group are available.
CallAvailable(g, ret) ==
  /\ available' = [group |-> g, ret |-> ret]
  /\ UNCHANGED <<envVars, wrVars, soloVars, pairVars, runPc, runRet, runCtx, capsOk, input,
                 pendingErr, errsSeen, errsClosed, srvState, inits, out, inputs, errsRecv,
                 lwVars, requiredServerCapabilities, serverCapabilities>>

CallPrompts == CallAvailable("prompts", PromptsCommandsAvailable)
CallResources == CallAvailable("resources", ResourcesCommandsAvailable)
CallTools == CallAvailable("tools", ToolsCommandsAvailable)

\* ----------------------------------------------------------- specification

Next ==
  \/ \E c \in Stoppers : StopClose(c)
  \/ \E c \in Stoppers : StopWait(c)
  \/ \E s \in Sends : SendCall(s)
  \/ CtxCancel
  \/ \E s \in Sends : WCheck(s)
  \/ \E s \in Sends : WWriteBegin(s)
  \/ \E s \in Sends : WWriteReturn(s)
  \/ \E s \in Sends : WReport(s)
  \/ \E s \in Sends : SendSelect(s)
  \/ MessagesStart
  \/ MsgSpawn
  \/ \E i \in MsgIters : RdRead(i)
  \/ MsgSelect
  \/ MsgHandle
  \/ MsgYieldReturn
  \/ MsgClose
  \/ SessionsYield
  \/ SessionsYieldReturn
  \/ SessionsWait
  \/ SessionsClose

Spec == Init /\ [][Next]_vars

\* The Go scheduler runs every goroutine that can take a step, and a range body
\* runs to its end.  Nothing makes a caller call Stop, Send or start an
\* iteration, cancel a context, or makes the reader or the writer return.
Fairness ==
  /\ \A c \in Stoppers : WF_vars(StopWait(c))
  /\ \A s \in Sends : WF_vars(WCheck(s)) /\ WF_vars(WWriteBegin(s))
                      /\ WF_vars(WReport(s)) /\ WF_vars(SendSelect(s))
  /\ WF_vars(MsgSpawn) /\ WF_vars(MsgSelect) /\ WF_vars(MsgHandle)
  /\ WF_vars(MsgYieldReturn) /\ WF_vars(MsgClose)
  /\ WF_vars(SessionsYieldReturn) /\ WF_vars(SessionsWait) /\ WF_vars(SessionsClose)

FairSpec == Spec /\ Fairness

\* The client side of one session, with room for two iterations and the lines
\* between them: StartSession, the Messages loop and Stop.
ReadInit ==
  Fresh /\ quota = MaxCalls + 2 /\ tail = FALSE /\ capsOk = TRUE /\ errsRecv = TRUE /\ NoCaps

ReadNext ==
  \/ \E c \in Stoppers : StopClose(c)
  \/ \E c \in Stoppers : StopWait(c)
  \/ StartSessionClose
  \/ StartSessionReturn
  \/ MessagesStart
  \/ MsgSpawn
  \/ \E i \in MsgIters : RdRead(i)
  \/ MsgSelect
  \/ MsgHandle
  \/ MsgYieldReturn
  \/ MsgClose

ReadSpec == ReadInit /\ [][ReadNext]_vars

\* The scheduler runs the loop, the consumer's range body ends, a call that can
\* return does; nothing makes the reader return or a caller call.
ReadFairSpec ==
  /\ ReadSpec
  /\ \A c \in Stoppers : WF_vars(StopWait(c))
  /\ WF_vars(StartSessionReturn)
  /\ WF_vars(MsgSpawn) /\ WF_vars(MsgSelect) /\ WF_vars(MsgHandle)
  /\ WF_vars(MsgYieldReturn) /\ WF_vars(MsgClose)

\* The same reading side on a stream whose last line may lack its newline.
TailInit ==
  Fresh /\ quota = MaxCalls + 2 /\ tail = TRUE /\ capsOk = TRUE /\ errsRecv = TRUE /\ NoCaps

TailSpec == TailInit /\ [][ReadNext]_vars

\* The server side of one session: Shutdown, the Sessions iteration, the
\* Messages loop of the session it yields, and Stop.
ServerNext ==
  \/ Shutdown
  \/ \E c \in Stoppers : StopClose(c)
  \/ \E c \in Stoppers : StopWait(c)
  \/ SessionsYield
  \/ SessionsYieldReturn
  \/ SessionsWait
  \/ SessionsClose
  \/ MessagesStart
  \/ MsgSpawn
  \/ \E i \in MsgIters : RdRead(i)
  \/ MsgSelect
  \/ MsgHandle
  \/ MsgYieldReturn
  \/ MsgClose

ServerSpec == Init /\ [][ServerNext]_vars

\* Two endpoints joined by two pipes, each sending PairSends messages to the
\* other and consuming what the other sends.
PairNext ==
  \/ \E e \in Endpoints : PairSendCall(e)
  \/ \E e \in Endpoints : PairWCheck(e)
  \/ \E e \in Endpoints : PairWriteBegin(e)
  \/ \E e \in Endpoints : PairWriteReturn(e)
  \/ \E e \in Endpoints : PairWReport(e)
  \/ \E e \in Endpoints : PairSendSelect(e)
  \/ \E e \in Endpoints : PairMessagesStart(e)
  \/ \E e \in Endpoints : PairSpawn(e)
  \/ \E e \in Endpoints : PairFill(e)
  \/ \E e \in Endpoints : PairReadString(e)
  \/ \E e \in Endpoints : PairSelectLines(e)
  \/ \E e \in Endpoints : PairHandle(e)
  \/ \E e \in Endpoints : PairYieldReturn(e)

PairSpec == Init /\ [][PairNext]_vars

\* Every goroutine that can take a step is run, the senders send all their
\* messages and the consumers keep consuming.
PairFairSpec == PairSpec /\ WF_vars(PairNext)

\* One Run of a StdIOClient.
RunNext ==
  \/ RunStart
  \/ RunCtxCancel
  \/ RunWait
  \/ RunStartSession
  \/ RunInitialize
  \/ RunDispatch
  \/ RunSendErr
  \/ RunClose
  \/ ListenRecv
  \/ ListenCtx
  \/ HandleSrv
  \/ HandleCli

\* The writer of a StdIOClient under arbitrary calls of Write, with the
\* listenWritter goroutine Run starts and the goroutines that one spawns.
WriterNext ==
  \/ RunStart
  \/ RunCtxCancel
  \/ \E p \in Chunks : WriterWrite(p)
  \/ WriterSend
  \/ ListenCtx
  \/ HandleSrv
  \/ HandleCli

WriterSpec == Init /\ [][WriterNext]_vars

\* The capabilities of the client and of the server are fixed at construction;
\* the caller of Run either receives from errsChan until it is closed or, like
\* the test of Run, never does.
RunInit ==
  /\ Fresh /\ quota = MaxCalls /\ tail = FALSE
  /\ capsOk \in BOOLEAN /\ errsRecv \in BOOLEAN /\ NoCaps

RunSpec == RunInit /\ [][RunNext]_vars

\* A client and a server built with any options, and the calls of the three
\* *CommandsAvailable methods.
CapInit ==
  /\ Fresh /\ quota = MaxCalls /\ tail = FALSE /\ capsOk = TRUE /\ errsRecv = TRUE
  /\ requiredServerCapabilities \in SUBSET Groups
  /\ serverCapabilities \in SUBSET Groups

CapNext == CallPrompts \/ CallResources \/ CallTools

CapSpec == CapInit /\ [][CapNext]_vars

\* Every goroutine that can take a step takes one; a select with several ready
\* cases picks each of them again and again (it chooses at random).
RunFairSpec ==
  /\ RunSpec
  /\ WF_vars(RunStart) /\ WF_vars(RunStartSession) /\ WF_vars(RunInitialize)
  /\ WF_vars(RunDispatch) /\ WF_vars(RunSendErr) /\ WF_vars(RunClose)
  /\ SF_vars(RunWaitCtx)
  /\ WF_vars(ListenCtx) /\ WF_vars(HandleSrv) /\ WF_vars(HandleCli)

\* ------------------------------------------------------------------ claims

\* C1: Stop is idempotent: however many times Stop is called, no call fails
\* with a close of the already closed done channel.
C1_StopIdempotent == \A c \in Stoppers : stopPc[c] # "panicked"

\* C2: a Send that returns when the done signal has already fired returns nil,
\* also when its Write has failed before.
C2_RacingSendReturnsNil ==
  [][\A s \in Sends :
       (done /\ sendPc[s] = "select" /\ sendPc'[s] = "returned") => sendRet'[s] = "nil"]_vars

\* C3, as claimed: a Send called after the done signal fired never calls Write
\* on the writer, and what it returns is nil.
C3_LateSendReturnsNil ==
  \A s \in Sends :
    sendLate[s] => /\ writes[s] = 0
                   /\ sendPc[s] = "returned" => sendRet[s] = "nil"

\* C3, amended: a Send called after the done signal fired never calls Write on
\* the writer; it returns nil when its message marshals, and the marshal error
\* when it does not.
C3_LateSendIsNoOp ==
  \A s \in Sends :
    sendLate[s] => /\ writes[s] = 0
                   /\ wPc[s] \in {"none", "check", "exit"}
                   /\ wRes[s] = "none"
                   /\ sendPc[s] = "returned" =>
                        sendRet[s] = IF Marshal(sendMsg[s]).ok THEN "nil" ELSE "marshalErr"

C3_Witness ==
  \E s \in Sends : sendLate[s] /\ sendPc[s] = "returned" /\ wPc[s] = "exit"

\* C4: once the done signal has fired, a Messages iteration waiting in its
\* select ends (it returns, or the process ends in a panic), also when the
\* reader never returns.
C4_StopInterruptsRead ==
  (done /\ msgPc = "select") ~> (msgPc = "returned" \/ ~Running)

C4_Witness ==
  done /\ msgPc = "returned" /\ rd[msgIter] = "reading" /\ nread = 0

\* C5: once the done signal has fired, every Send waiting in its select returns,
\* also when its Write never returns, and the Messages iteration whose read is
\* in flight ends (or the process ends in a panic).
C5_StopWakesAll ==
  /\ \A s \in Sends :
       (done /\ sendPc[s] = "select") ~> (sendPc[s] = "returned" \/ ~Running)
  /\ (done /\ msgPc = "select" /\ rd[msgIter] = "reading")
       ~> (msgPc = "returned" \/ ~Running)

C5_Witness ==
  /\ done
  /\ \E s \in Sends : sendPc[s] = "returned" /\ sendRet[s] = "nil" /\ wPc[s] = "inWrite"
  /\ msgPc = "returned" /\ rd[msgIter] = "reading"

\* C6: a Send whose context is cancelled while its Write is stalled and the
\* session is not stopped can return.
C6_SendRespectsCtx ==
  \A s \in Sends :
    (ctxDone /\ sendPc[s] = "select" /\ wPc[s] = "inWrite" /\ ~done)
      => ENABLED SendSelect(s)

C8_OneSessionIdOne ==
  sessPc \in {"yield", "wait", "closing", "returned"} => sessYields = <<"1">>

C8_Witness ==
  sessPc = "yield" /\ sessIter = 2 /\ done /\ sessYields = <<"1">>

\* C9: Sessions can be iterated to completion again on the same StdIO: no
\* iteration fails with a close of the already closed closed channel.
C9_SessionsRestartable == panicked # "Sessions"

\* C10: when the consumer has broken out of its range over Sessions, the
\* iterator can return, also when Stop has not been called.
C10_BreakRegainsControl ==
  (sessBroke /\ sessPc = "wait") => ENABLED SessionsWait

\* A line of the stream that is delivered: read without error, not empty, and
\* the document of a message.
WellFormed(item) == item.err = "nil" /\ item.line # "" /\ Unmarshal(item.line).ok

\* The messages of the well-formed lines of a sequence of reads, in order.
RECURSIVE Decoded(_)
Decoded(items) ==
  IF items = <<>> THEN <<>>
  ELSE (IF WellFormed(Head(items)) THEN <<Unmarshal(Head(items).line).msg>> ELSE <<>>)
         \o Decoded(Tail(items))

IsPrefix(p, q) == Len(p) <= Len(q) /\ \A k \in 1..Len(p) : p[k] = q[k]

\* C11: within one Messages iteration, the messages delivered so far are a
\* prefix of the messages of the well-formed lines the reader has returned
\* since the iteration started: arrival order, none skipped, none twice.
C11_DeliveredPrefixOfArrived == IsPrefix(delivered, Decoded(arrived))

\* C12: a line that fails JSON decoding is not delivered and does not end the
\* iteration (the loop goes back to its top with nothing delivered), and as
\* long as the session is not stopped every well-formed line that arrived,
\* before or after it, has been delivered once the loop is back at its read.
C12_MalformedLineSkipped ==
  /\ [][(msgPc = "handle" /\ lwe.err = "nil" /\ lwe.line # ""
           /\ ~Unmarshal(lwe.line).ok /\ msgPc' # msgPc)
          => (msgPc' = "top" /\ delivered' = delivered)]_vars
  /\ []((~done /\ (msgPc = "top" \/ (msgPc = "select" /\ rd[msgIter] = "reading")))
          => delivered = Decoded(arrived))

C12_Witness ==
  /\ ~done /\ msgPc = "top"
  /\ Len(arrived) = 3
  /\ WellFormed(arrived[1])
  /\ arrived[2] = [line |-> "{not json", err |-> "nil"]
  /\ WellFormed(arrived[3])
  /\ Len(delivered) = 2

\* A message with its raw params compacted, as json.Compact leaves them.
Compact(m) == IF m = "spaced" THEN "request" ELSE m

\* Every message of both senders has been sent and delivered to the peer, and
\* every Send has returned.
PairComplete ==
  \A e \in Endpoints :
    /\ Len(sent[e]) = PairSends /\ Len(rets[e]) = PairSends
    /\ Len(got[Peer(e)]) = PairSends

\* C13: two endpoints joined by two synchronous pipes, each sending PairSends
\* valid messages while both consume, neither stopped: every Send returns nil;
\* what the peer has been delivered is always a prefix of what was sent (none
\* lost before a later one, none twice); as long as a message is unsent or
\* undelivered some step can be taken (no deadlock); and in the end every
\* message is delivered.
C13_PairExchange ==
  /\ [](\A e \in Endpoints : \A k \in 1..Len(rets[e]) : rets[e][k] = "nil")
  /\ [](\A e \in Endpoints :
          IsPrefix(got[Peer(e)], [k \in 1..Len(sent[e]) |-> Compact(sent[e][k])]))
  /\ [](PairComplete \/ ENABLED PairNext)
  /\ <>PairComplete

C13_Witness ==
  /\ PairComplete
  /\ \A e \in Endpoints : got[e] # <<>> /\ \A k \in 1..Len(rets[e]) : rets[e][k] = "nil"

C15_ReadErrorEndsLoop ==
  /\ [][(msgPc = "handle" /\ lwe.err # "nil" /\ msgPc' # msgPc)
          => (msgPc' = "closing" /\ msgEnd'[msgIter] = lwe.err
               /\ delivered' = delivered)]_vars
  /\ [][(msgIter > 0 /\ msgEnd[msgIter] \in {"EOF", "ERR"} /\ msgIter' = msgIter)
          => (/\ delivered' = delivered
              /\ rd'[msgIter] = rd[msgIter]
              /\ msgPc' \in {"closing", "returned"})]_vars
  /\ (msgPc = "handle" /\ lwe.err # "nil") ~> (msgPc = "returned" \/ ~Running)

C15_Witness ==
  /\ msgPc = "returned" /\ msgEnd[msgIter] = "ERR" /\ ~done
  /\ Len(delivered) = 1 /\ rd[msgIter] = "exit"

\* A step of the program that closes the done channel with no Stop call made.
DoneFiresUnasked == ReadNext /\ ~done /\ done' /\ stopPc' = stopPc

\* C16: once an iteration has ended because of end of stream or a read error,
\* the done signal has fired, or the program is about to fire it by itself,
\* without a caller invoking Stop.
C16_ClosedOnReadError ==
  (msgPc = "returned" /\ msgEnd[msgIter] \in {"EOF", "ERR"})
    => (done \/ ENABLED DoneFiresUnasked)

\* C17: once a Shutdown call has returned, the done signal has fired.
C17_ShutdownClosesSession == shutdowns > 0 => done

\* C18: a StartSession call has closed its ready channel before it returns and
\* has sent nothing on it, and what it returns is the session's message
\* sequence with a nil error.
C18_StartSessionReady ==
  /\ startPc \in {"closed", "returned"} => (ready.closed /\ ready.sent = <<>>)
  /\ startPc = "returned" => startRet = [seq |-> "Messages", err |-> "nil"]

C18_Witness ==
  /\ startPc = "returned" /\ starts = 2
  /\ ready.closed /\ startRet.err = "nil"
  /\ msgPc = "select"

\* C19: a second Messages iteration on a session whose first iteration the
\* consumer broke out of, which has delivered a message and which its consumer
\* leaves in turn, does not fail with a close of the already closed closed
\* channel.
C19_MessagesRestartable ==
  (msgIter = 2 /\ msgEnd[1] = "break" /\ msgEnd[2] = "break" /\ delivered # <<>>)
    => panicked # "Messages"

\* The handshake has failed in this Run.
InitializeFailed ==
  \E k \in 1..Len(errsSeen) : errsSeen[k] = "failed to initialize session"

\* C20: once the initialize handshake has failed for a missing capability,
\* Run does not go back to its input: it is returning, or has returned, a
\* non-nil error.
C20_MissingCapabilityFatal ==
  (~capsOk /\ InitializeFailed) => (runPc \in {"closing", "returned"} /\ runRet # "none")

\* C21: once the context passed to Run is cancelled, Run returns, wherever
\* its loop is: waiting for input, sending on errsChan or inside a handler.
C21_CancelEndsRun == runCtx ~> (runPc = "returned")

\* C22: an input that is not valid JSON, or a request whose params do not
\* decode, is reported on errsChan as errInvalidJSON, gets no response on
\* out, and leaves Run in its loop, waiting for the next input.
C22_DecodeErrorRecovered ==
  /\ [](input = "invalidJSON" => (runPc = "sendErr" /\ pendingErr = "errInvalidJSON"))
  /\ []((runPc = "sendErr" /\ pendingErr = "errInvalidJSON")
          => \A k \in 1..Len(out) : out[k].id # inputs)
  /\ [][(runPc = "sendErr" /\ pendingErr = "errInvalidJSON" /\ runPc' # runPc)
         => /\ runPc' = "wait"
            /\ runRet' = "none"
            /\ out' = out
            /\ errsSeen' = Append(errsSeen, "errInvalidJSON")]_vars

\* Bytes that are not JSON, then a request with bad params, then a request
\* that is answered.
C22_Witness ==
  /\ errsSeen = <<"errInvalidJSON", "errInvalidJSON">>
  /\ inits = 2
  /\ out = <<[id |-> 3, kind |-> "result"]>>
  /\ runPc = "wait"

\* C23: over all the requests one Run processes, a session is started and
\* the initialize handshake is performed at most once.
C23_InitializeOnce == inits <= 1

\* C24: every request of a handled method that Run reads after a successful
\* handshake, and whose params decode, gets exactly one response on out with
\* the id of the request: a result when the operation succeeds, an error
\* response when it fails.
C24_OneResponsePerRequest ==
  /\ [](\A j, k \in 1..Len(out) : out[j].id = out[k].id => j = k)
  /\ [][(/\ input \in Handled
          /\ runPc \in {"dispatch", "sendErr"}
          /\ pendingErr \in {"none", "opErr"}
          /\ runPc' = "wait")
         => out' = Append(out, [id |-> inputs,
                                kind |-> IF runPc = "dispatch" THEN "result"
                                                               ELSE "error"])]_vars

\* C25: Run is never about to write s.currentSessionID while a goroutine
\* spawned by listenWritter is still to read it: no state holds a write and
\* a read of the field that nothing orders.
C25_NoRaceOnSessionID ==
  ~(runPc = "startSession" /\ handlers.srv + handlers.cli > 0)

\* C29: errsChan is closed exactly when Run has returned, by the one step
\* that makes it return; nothing is sent on it afterwards, and whichever way
\* Run returns, the wrapped server has been stopped.
C29_ErrsChanClosedOnReturn ==
  /\ [](errsClosed <=> runPc = "returned")
  /\ [](runPc = "returned" => (srvState = "stopped" /\ runRet \in {"ctxErr", "readErr"}))
  /\ [][errsClosed => (errsClosed' /\ errsSeen' = errsSeen /\ pendingErr' = "none"
                        /\ runPc' = "returned")]_vars

\* Run has returned on a read error after reporting an error on errsChan.
C29_Witness ==
  /\ runPc = "returned"
  /\ runRet = "readErr"
  /\ errsClosed
  /\ srvState = "stopped"
  /\ Len(errsSeen) = 1

\* The frames of the messages that marshal: the document, then one newline.
Frames == {<<Marshal(m).doc, "\n">> : m \in {n \in Msgs : Marshal(n).ok}}

\* C26: every Send calls Write at most once, and what the writer took is,
\* for each of those calls, one whole frame: a JSON document followed by
\* exactly one newline, never a part of a frame and never a frame twice.
C26_OneWholeFramePerSend ==
  /\ \A s \in Sends : writes[s] <= 1
  /\ \A k \in 1..Len(wire) : wire[k] \in Frames /\ wire[k][1] # "\n"
  /\ Len(wire) = Cardinality({s \in Sends : wRes[s] = "nil"})

\* Two Sends have each written their frame.
C26_Witness ==
  /\ Len(wire) = 2
  /\ Cardinality({s \in Sends : writes[s] = 1 /\ sendRet[s] = "nil"}) = 2

\* C27 as stated: on a session that is not stopped, a Send that has returned
\* has completed its Write and returns what the Write returned.
C27_SendReturnsWriteOutcome ==
  \A s \in Sends :
    (sendPc[s] = "returned" /\ ~done) => (wRes[s] # "none" /\ sendRet[s] = wRes[s])

\* C27, amended: on a session that is not stopped, a Send of a message that
\* marshals returns only after its Write has completed, and returns what the
\* Write returned (nil, or the I/O error); a Send of a message that does not
\* marshal returns the marshal error without a Write.
C27_SendReturnsWriteOrMarshalError ==
  \A s \in Sends :
    (sendPc[s] = "returned" /\ ~done) =>
      IF Marshal(sendMsg[s]).ok
        THEN wRes[s] # "none" /\ sendRet[s] = wRes[s]
        ELSE writes[s] = 0 /\ sendRet[s] = "marshalErr"

\* A Send has returned the error of its failed Write, the session not stopped.
C27_Witness ==
  /\ ~done
  /\ \E s \in Sends : sendPc[s] = "returned" /\ wRes[s] = "err" /\ sendRet[s] = "err"

\* C28: once yield has returned false the iteration is over: the loop is in
\* its return, it spawns no further read goroutine and yields no further
\* message in that iteration.
C28_BreakEndsLoop ==
  /\ [](msgIter > 0 => (msgEnd[msgIter] = "break" => msgPc \in {"closing", "returned"}))
  /\ [][(msgIter > 0 /\ msgEnd[msgIter] = "break" /\ msgIter' = msgIter)
         => /\ delivered' = delivered
            /\ rd'[msgIter] = rd[msgIter]
            /\ msgPc' \in {"closing", "returned"}]_vars

\* The consumer broke out after the first message while the stream has more.
C28_Witness ==
  /\ msgIter = 1
  /\ msgPc = "returned"
  /\ msgEnd[1] = "break"
  /\ Len(delivered) = 1
  /\ ~eof

\* C30: a *CommandsAvailable method returns true exactly when the
\* capabilities of the server include its feature group.
C30_AvailableIffServerOffers ==
  available.group # "none" => (available.ret <=> available.group \in serverCapabilities)

\* The Messages iteration is inside its loop.
InLoop == msgPc \in {"top", "select", "handle", "yield"}

\* C31: when a call of Stop returns, no Messages iteration is inside its
\* loop, and once a call of Stop has returned an iteration delivers no
\* further message to its consumer.
C31_StopReturnsAfterLoop ==
  /\ [][\A c \in Stoppers :
          (stopPc[c] = "wait" /\ stopPc'[c] = "returned") => ~InLoop]_vars
  /\ [][((\E c \in Stoppers : stopPc[c] = "returned") /\ InLoop /\ msgIter' = msgIter)
         => delivered' = delivered]_vars

\* C32: a call of Stop that has closed done is never left waiting with
\* nothing in the program to let it return: either closed is closed already
\* or a Messages iteration is running, whose return closes it.
C32_StopCanReturn ==
  \A c \in Stoppers :
    (stopPc[c] = "wait" /\ Running) => (sess_closed \/ InLoop \/ msgPc = "closing")

\* C33: once done is closed the Messages loop delivers no further message to
\* its consumer, also when a line was waiting to be handed over at the moment
\* done was closed.
C33_NoDeliveryAfterDone ==
  [][(done /\ msgIter' = msgIter) => delivered' = delivered]_vars

\* C34: no call of Write on the underlying writer begins once done is closed,
\* neither for a Send that was in flight when Stop was called nor for a later
\* one.
C34_NoWriteAfterDone ==
  [][\A s \in Sends : done => writes'[s] = writes[s]]_vars

\* C35: a read goroutine that has its result in hand is never left behind by
\* its loop: it belongs to the running iteration, whose loop is at the select
\* that receives from lines, so the hand-over can happen and no line consumed
\* from the reader is lost.
C35_NoReaderLeftBehind ==
  \A i \in MsgIters :
    rd[i] = "handoff" => (i = msgIter /\ msgPc = "select")

\* C36: the write goroutine of a Send never blocks on reporting its result:
\* whenever its Write has returned, the send on errs can proceed at once, also
\* when Send has already returned because done was closed.
C36_ReportNeverBlocks ==
  \A s \in Sends : (Running /\ wPc[s] = "report") => ENABLED WReport(s)

\* A Send returned nil through its done case while its Write was under way,
\* and its goroutine has reported the outcome and ended all the same.
C36_Witness ==
  \E s \in Sends :
    /\ sendPc[s] = "returned" /\ sendRet[s] = "nil"
    /\ writes[s] = 1 /\ wRes[s] = "err"
    /\ wPc[s] = "exit" /\ errs[s] = <<"err">>

\* The read goroutine of iteration i holds data that ReadString returned
\* together with io.EOF: a last line without its newline.
TailInHand(i) == rdLwe[i].err = "EOF" /\ rdLwe[i].line # ""

\* C37: a last line that lacks its newline when the stream ends is never
\* delivered.  What the loop receives for it is the bare EOF; on EOF the loop
\* ends the sequence and yields nothing; and in an iteration with no reader
\* left over from an earlier one, what has been delivered is a prefix of the
\* messages of the lines read without error.
C37_UnterminatedTailDropped ==
  /\ [][(msgPc = "select" /\ msgPc' = "handle" /\ TailInHand(msgIter))
          => lwe' = [line |-> "", err |-> "EOF"]]_vars
  /\ [][(msgPc = "handle" /\ lwe.err = "EOF" /\ msgPc' # msgPc)
          => (msgPc' = "closing" /\ msgEnd'[msgIter] = "EOF"
              /\ delivered' = delivered)]_vars
  /\ [](msgIter = 1 => IsPrefix(delivered, Decoded(arrived)))

\* The stream held a message and then the document of a second one with no
\* newline after it: the iteration ended on EOF with the first one delivered.
C37_Witness ==
  /\ msgIter = 1 /\ msgPc = "returned" /\ msgEnd[1] = "EOF"
  /\ arrived = <<[line |-> "{request}", err |-> "nil"],
                 [line |-> "{notification}", err |-> "EOF"]>>
  /\ delivered = <<"request">>

\* Bytes that no further Write can complete to a document.
Hopeless(bs) == bs # <<>> /\ ~IsPrefix(bs, Document)

\* C38: Write recovers from invalid input.  A whole document passed to one
\* Write is sent on msgChan, and the buffer is empty afterwards, when the
\* buffer was empty before and also when it held bytes that can never become
\* a document; and whenever Write has returned it has returned (len(p), nil).
C38_WriteRecovers ==
  /\ [][(wrCalls' = wrCalls + 1 /\ wrArg' = Document
            /\ (written = <<>> \/ Hopeless(written)))
          => (wrPc' = "sending" /\ written' = <<>>)]_vars
  /\ []((wrCalls > 0 /\ wrPc = "idle") => wrRet = [n |-> Len(wrArg), err |-> "nil"])

====
